---- MODULE Spec2Model ----
(***************************************************************************)
(* Customer REST service (service/models.py, service/routes.py).           *)
(*                                                                         *)
(* The state is the customer table plus the last request and its response. *)
(* Every request handler is one action.  Each request runs in its own      *)
(* application context, so the SQLAlchemy session of a request is removed  *)
(* (uncommitted changes rolled back) when the request ends: the only state *)
(* that survives a request is what was committed to the table.             *)
(***************************************************************************)
EXTENDS Integers, Sequences, FiniteSets, TLC

VARIABLES
    store,      \* the customer table: a set of rows
    seq,        \* last value handed out by the primary-key sequence
    req,        \* the last request
    resp,       \* the response to the last request
    removed,    \* history: ids whose row a Delete request removed
    ever,       \* history: ids that were assigned to some row
    lastSA      \* history: per live id, its last successful suspend/activate request

vars == <<store, seq, req, resp, removed, ever, lastSA>>

\* Number of rows the model creates (the primary-key sequence is capped here).
MaxId == 2

(***************************************************************************)
(* JSON / Python values.  Strings are sequences of one-character strings.  *)
(***************************************************************************)
Null == [t |-> "null"]
Str(s) == [t |-> "str", v |-> s]
Num(n) == [t |-> "int", v |-> n]
Bool(b) == [t |-> "bool", v |-> b]
Dict(d) == [t |-> "dict", v |-> d]
JsonList == [t |-> "list"]

\* HTTP status codes (service/common/status.py values used by routes.py)
HTTP_200_OK == 200
HTTP_201_CREATED == 201
HTTP_204_NO_CONTENT == 204
HTTP_400_BAD_REQUEST == 400
HTTP_404_NOT_FOUND == 404
HTTP_415_UNSUPPORTED_MEDIA_TYPE == 415
HTTP_500_INTERNAL_SERVER_ERROR == 500

\* Columns of the table, in schema order.
Columns == {"id", "first_name", "last_name", "address", "phone_number", "email"}

\* Customer(): a new instance, every mapped attribute None.
Customer == [c \in Columns |-> Null]

\* Keys of customer_response_model: customer_model plus the read-only id.
customer_model == {"first_name", "last_name", "email", "phone_number", "address", "suspended"}
customer_response_model == customer_model \cup {"id"}

(***************************************************************************)
(* Strings                                                                 *)
(***************************************************************************)
Digits == <<"0", "1", "2", "3", "4", "5", "6", "7", "8", "9">>

\* str(n) for n >= 0, as the f-strings and %d formats of routes.py render an id
RECURSIVE ToStr(_)
ToStr(n) == IF n < 10 THEN <<Digits[n + 1]>> ELSE ToStr(n \div 10) \o <<Digits[(n % 10) + 1]>>

\* f"Customer with id '{customer_id}' was not found."
NotFoundMessage(customer_id) ==
    <<"Customer with id '">> \o ToStr(customer_id) \o <<"' was not found.">>

\* f"Content-Type must be {content_type}"
ContentTypeMessage(content_type) == <<"Content-Type must be ", content_type>>

(***************************************************************************)
(* Customer model (service/models.py)                                      *)
(***************************************************************************)

\* Customer.serialize: six keys, no "suspended"
serialize(self) ==
    [id           |-> self.id,
     first_name   |-> self.first_name,
     last_name    |-> self.last_name,
     email        |-> self.email,
     phone_number |-> self.phone_number,
     address      |-> self.address]

\* dict.get(key): None when the key is absent
DictGet(d, key) == IF key \in DOMAIN d THEN d[key] ELSE Null

\* deserialize with data.get(key, self.<key>) for the optional fields
deserialize_keep_optional(self, data) ==
    IF data.t # "dict" \/ {"first_name", "last_name", "email"} \ DOMAIN data.v # {}
    THEN [ok |-> FALSE, self |-> self]
    ELSE [ok |-> TRUE,
          self |-> [self EXCEPT !.first_name = data.v["first_name"],
                                !.last_name = data.v["last_name"],
                                !.email = data.v["email"],
                                !.phone_number = IF "phone_number" \in DOMAIN data.v
                                                 THEN data.v["phone_number"] ELSE @,
                                !.address = IF "address" \in DOMAIN data.v
                                            THEN data.v["address"] ELSE @]]

\* deserialize that also copies data["id"] when the body carries one
deserialize_with_id(self, data) ==
    IF data.t # "dict" \/ {"first_name", "last_name", "email"} \ DOMAIN data.v # {}
    THEN [ok |-> FALSE, self |-> self]
    ELSE [ok |-> TRUE,
          self |-> [self EXCEPT !.id = IF "id" \in DOMAIN data.v THEN data.v["id"] ELSE @,
                                !.first_name = data.v["first_name"],
                                !.last_name = data.v["last_name"],
                                !.email = data.v["email"],
                                !.phone_number = DictGet(data.v, "phone_number"),
                                !.address = DictGet(data.v, "address")]]

\* deserialize that assigns only the keys the body has (a partial update)
deserialize_partial(self, data) ==
    IF data.t # "dict" THEN [ok |-> FALSE, self |-> self]
    ELSE [ok |-> TRUE,
          self |-> [c \in DOMAIN self |->
                       IF c # "id" /\ c \in DOMAIN data.v THEN data.v[c] ELSE self[c]]]

\* deserialize that reads the required fields with data.get (None when absent)
deserialize_get_required(self, data) ==
    IF data.t # "dict" THEN [ok |-> FALSE, self |-> self]
    ELSE [ok |-> TRUE,
          self |-> [self EXCEPT !.first_name = DictGet(data.v, "first_name"),
                                !.last_name = DictGet(data.v, "last_name"),
                                !.email = DictGet(data.v, "email"),
                                !.phone_number = DictGet(data.v, "phone_number"),
                                !.address = DictGet(data.v, "address")]]

\* Customer.deserialize: the assignments run in order; the first missing key
\* (KeyError) or a body that is no dict (TypeError) raises DataValidationError
\* and leaves the assignments made so far on the instance.
deserialize(self, data) ==
    IF data.t # "dict" THEN [ok |-> FALSE, self |-> self]
    ELSE IF "first_name" \notin DOMAIN data.v THEN [ok |-> FALSE, self |-> self]
    ELSE LET s1 == [self EXCEPT !.first_name = data.v["first_name"]] IN
         IF "last_name" \notin DOMAIN data.v THEN [ok |-> FALSE, self |-> s1]
    ELSE LET s2 == [s1 EXCEPT !.last_name = data.v["last_name"]] IN
         IF "email" \notin DOMAIN data.v THEN [ok |-> FALSE, self |-> s2]
    ELSE [ok |-> TRUE,
          self |-> [s2 EXCEPT !.email = data.v["email"],
                              !.phone_number = DictGet(data.v, "phone_number"),
                              !.address = DictGet(data.v, "address")]]

\* Customer.find with a fallback to an arbitrary row (query.first()) on a miss
find_or_first(by_id) ==
    IF \E r \in store : r.id = Num(by_id)
    THEN CHOOSE r \in store : r.id = Num(by_id)
    ELSE IF store # {} THEN CHOOSE r \in store : TRUE ELSE Null

\* Customer.find: session.get(cls, by_id), None when no row has the key
find(by_id) ==
    IF \E r \in store : r.id = Num(by_id)
    THEN CHOOSE r \in store : r.id = Num(by_id)
    ELSE Null

\* Primary key taken as largest live id + 1 (rowid-style allocation)
nextval_max_rowid(sq) ==
    IF store = {} THEN 1
    ELSE (CHOOSE n \in {r.id.v : r \in store} : \A r \in store : r.id.v <= n) + 1

\* id = db.Column(db.Integer, primary_key=True): the key of an inserted row is
\* the next value of the column's sequence, which never goes back
nextval(sq) == sq + 1

\* Customer.create: self.id = None, session.add, commit
create(self) ==
    LET row == [self EXCEPT !.id = Num(nextval(seq))]
    IN [self |-> row, store |-> store \cup {row}]

\* Customer.update: commit; the instance's mapped attributes are written to its row
update(old, self) == (store \ {old}) \cup {[c \in Columns |-> self[c]]}

\* session.delete that drops the whole table
session_delete_all(self) == {}

\* Customer.delete: session.delete(self), commit
delete(self) == store \ {self}

\* Upper-case ASCII letters and their lower case
UpperToLower ==
    [A |-> "a", B |-> "b", C |-> "c", D |-> "d", E |-> "e", F |-> "f", G |-> "g",
     H |-> "h", I |-> "i", J |-> "j", K |-> "k", L |-> "l", M |-> "m", N |-> "n",
     O |-> "o", P |-> "p", Q |-> "q", R |-> "r", S |-> "s", T |-> "t", U |-> "u",
     V |-> "v", W |-> "w", X |-> "x", Y |-> "y", Z |-> "z"]

\* Character classes of the validators' patterns
AsciiLetters ==
    DOMAIN UpperToLower \cup {UpperToLower[c] : c \in DOMAIN UpperToLower}
AsciiAlnum == AsciiLetters \cup {Digits[i] : i \in 1..10}

\* Python "sub in s"
InStr(sub, s) == \E i \in 1..(Len(s) - Len(sub) + 1) : SubSeq(s, i, i + Len(sub) - 1) = sub

\* [a-zA-Z0-9] [inner]* [a-zA-Z0-9]: at least two characters
EdgedRun(s, inner) ==
    /\ Len(s) >= 2
    /\ s[1] \in AsciiAlnum
    /\ s[Len(s)] \in AsciiAlnum
    /\ \A i \in 2..(Len(s) - 1) : s[i] \in inner

\* \.[a-zA-Z]{2,}$ applied to what follows the dot: $ also matches before one
\* final newline
TldToEnd(s) ==
    LET t == IF s # <<>> /\ s[Len(s)] = "\n" THEN SubSeq(s, 1, Len(s) - 1) ELSE s
    IN Len(t) >= 2 /\ \A i \in 1..Len(t) : t[i] \in AsciiLetters

\* re.match(pattern, email) of validate_email_format
email_pattern(s) ==
    \E i \in 1..Len(s), j \in 1..Len(s) :
        /\ i < j
        /\ s[i] = "@"
        /\ s[j] = "."
        /\ EdgedRun(SubSeq(s, 1, i - 1), AsciiAlnum \cup {".", "_", "%", "+", "-"})
        /\ EdgedRun(SubSeq(s, i + 1, j - 1), AsciiAlnum \cup {".", "-"})
        /\ TldToEnd(SubSeq(s, j + 1, Len(s)))

\* re.match(simple_pattern, email) of validate_email_format
email_simple_pattern(s) ==
    /\ Len(s) >= 6
    /\ s[1] \in AsciiAlnum
    /\ s[2] = "@"
    /\ s[3] \in AsciiAlnum
    /\ s[4] = "."
    /\ TldToEnd(SubSeq(s, 5, Len(s)))

\* Customer.validate_email_format
validate_email_format(email) ==
    IF email = <<>> \/ InStr(<<".", ".">>, email) \/ InStr(<<" ">>, email)
    THEN FALSE
    ELSE email_pattern(email) \/ email_simple_pattern(email)

\* re.match(pattern, domain) of validate_domain_format
domain_pattern(s) ==
    \E j \in 1..Len(s) :
        /\ s[j] = "."
        /\ EdgedRun(SubSeq(s, 1, j - 1), AsciiAlnum \cup {".", "-"})
        /\ TldToEnd(SubSeq(s, j + 1, Len(s)))

\* a validate_domain_format without the pattern for one-character labels
domain_simple_pattern_absent(s) == FALSE

\* re.match(simple_pattern, domain) of validate_domain_format
domain_simple_pattern(s) ==
    /\ Len(s) >= 4
    /\ s[1] \in AsciiAlnum
    /\ s[2] = "."
    /\ TldToEnd(SubSeq(s, 3, Len(s)))

\* Customer.validate_domain_format
validate_domain_format(domain) ==
    IF \/ domain = <<>>
       \/ InStr(<<".", ".">>, domain)
       \/ InStr(<<" ">>, domain)
       \/ domain[1] = "."
       \/ domain[Len(domain)] = "."
    THEN FALSE
    ELSE domain_pattern(domain) \/ domain_simple_pattern(domain)

Lower(s) == [i \in 1..Len(s) |-> IF s[i] \in DOMAIN UpperToLower THEN UpperToLower[s[i]] ELSE s[i]]

\* SQL LIKE: % matches any run of characters, _ any one character, \ escapes
RECURSIVE LikeMatch(_, _)
LikeMatch(s, p) ==
    IF p = <<>> THEN s = <<>>
    ELSE IF Head(p) = "%"
         THEN LikeMatch(s, Tail(p)) \/ (s # <<>> /\ LikeMatch(Tail(s), p))
    ELSE IF Head(p) = "\\" /\ Len(p) >= 2
         THEN s # <<>> /\ Head(s) = p[2] /\ LikeMatch(Tail(s), Tail(Tail(p)))
    ELSE s # <<>> /\ (Head(p) = "_" \/ Head(p) = Head(s)) /\ LikeMatch(Tail(s), Tail(p))

\* column.ilike(pattern): case-insensitive LIKE; a NULL column matches nothing
ilike(col, pattern) == col.t = "str" /\ LikeMatch(Lower(col.v), Lower(pattern))

\* column == value in a filter: a NULL column matches nothing
sql_eq(col, value) == col.t = "str" /\ col.v = value

(***************************************************************************)
(* Routes (service/routes.py)                                              *)
(***************************************************************************)
NoHeaders == [h \in {} |-> ""]
NoArgs == [a \in {} |-> <<>>]

Response(status, body, headers) == [status |-> status, body |-> body, headers |-> headers]
CustomerBody(d) == [kind |-> "customer", v |-> d]
ListBody(S) == [kind |-> "list", v |-> S]
ErrorBody(message) == [kind |-> "error", message |-> message]
EmptyBody == [kind |-> "empty"]

\* abort(status, message)
abort(status, message) == Response(status, ErrorBody(message), NoHeaders)

\* marshal_with(model): one output key per model field; a field the data lacks
\* is marshalled as null
marshal(data, model) == [k \in model |-> IF k \in DOMAIN data THEN data[k] ELSE Null]

\* check_content_type that only tests that the header is there
check_content_type_present(headers, content_type) == "Content-Type" \in DOMAIN headers

\* check_content_type: TRUE when the request passes, FALSE when it aborts 415
check_content_type(headers, content_type) ==
    /\ "Content-Type" \in DOMAIN headers
    /\ headers["Content-Type"] = content_type

\* The response to a DataValidationError raised in a handler
DataValidationErrorResponse == abort(HTTP_400_BAD_REQUEST, <<"Bad Request">>)

\* The response to an exception no handler catches
InternalServerErrorResponse == abort(HTTP_500_INTERNAL_SERVER_ERROR, <<"Internal Server Error">>)

\* url_for("customer_resource", customer_id=...)
location_url(customer_id) == <<"/api/customers/">> \o ToStr(customer_id)

\* The <int:customer_id> converter of the route, applied to a customer URL
RECURSIVE ParseInt(_)
ParseInt(s) ==
    IF s = <<>> THEN 0
    ELSE 10 * ParseInt(SubSeq(s, 1, Len(s) - 1))
         + ((CHOOSE i \in 1..10 : Digits[i] = s[Len(s)]) - 1)
customer_id_of(url) == ParseInt(Tail(url))

\* request.args.get(name)
ArgsGet(args, name) == IF name \in DOMAIN args THEN Str(args[name]) ELSE Null

\* Python truthiness of an optional string
Truthy(v) == v.t = "str" /\ v.v # <<>>

(***************************************************************************)
(* Request inputs                                                          *)
(***************************************************************************)
ReqIds == 0..MaxId

JsonHeaders == ("Content-Type" :> "application/json")
HeaderChoices ==
    {NoHeaders, JsonHeaders, ("Content-Type" :> "text/html"),
     ("Content-Type" :> "application/json; charset=utf-8")}

FullBody ==
    Dict([first_name |-> Str(<<"A", "l">>), last_name |-> Str(<<"D", "o", "e">>),
          email |-> Str(<<"a", "@", "b", ".", "c", "o">>),
          phone_number |-> Str(<<"5">>), address |-> Str(<<"x">>)])
MinimalBody ==
    Dict([first_name |-> Str(<<"a", "l">>), last_name |-> Str(<<"R", "o", "e">>),
          email |-> Str(<<"r", "@", "b", ".", "c", "o">>)])
\* a serialized record sent back, with its read-only id and a suspended flag
EchoBody ==
    Dict([id |-> Num(MaxId + 7), first_name |-> Str(<<"U", "p">>),
          last_name |-> Str(<<"D", "O", "E">>),
          email |-> Str(<<"A", "@", "b", ".", "c", "o">>),
          phone_number |-> Str(<<>>), address |-> Null, suspended |-> Bool(TRUE)])
OnlyFirstNameBody == Dict([first_name |-> Str(<<"U", "p">>)])
MissingEmailBody ==
    Dict([first_name |-> Str(<<"U", "p">>), last_name |-> Str(<<"D", "o", "e">>)])
MissingFirstNameBody ==
    Dict([last_name |-> Str(<<"D", "o", "e">>),
          email |-> Str(<<"a", "@", "b", ".", "c", "o">>), phone_number |-> Str(<<"7">>)])
MissingLastNameBody ==
    Dict([first_name |-> Str(<<"U", "p">>),
          email |-> Str(<<"a", "@", "b", ".", "c", "o">>)])
NullFirstNameBody ==
    Dict([first_name |-> Null, last_name |-> Str(<<"D", "o", "e">>),
          email |-> Str(<<"a", "@", "b", ".", "c", "o">>)])

Bodies ==
    {FullBody, MinimalBody, EchoBody, OnlyFirstNameBody, MissingEmailBody,
     MissingFirstNameBody, MissingLastNameBody, NullFirstNameBody, JsonList}

\* Write requests: every body as JSON, a valid body under each other header,
\* and a body that is not valid under a header that is not JSON
WriteInputs ==
    {<<JsonHeaders, b>> : b \in Bodies} \cup {<<h, FullBody>> : h \in HeaderChoices}
    \cup {<<("Content-Type" :> "text/html"), JsonList>>}

ListQueries ==
    {NoArgs,
     [first_name |-> <<>>, last_name |-> <<>>],
     [email |-> <<"a", "@", "b", ".", "c", "o">>],
     [email |-> <<"b", "a", "d">>],
     [first_name |-> <<"a", "l">>],
     [last_name |-> <<"o", "e">>],
     [last_name |-> <<"_", "o", "e">>],
     [first_name |-> <<"A", "l">>, last_name |-> <<"d", "o">>],
     [phone_number |-> <<"5">>],
     [suspended |-> <<"t", "r", "u", "e">>],
     [suspended |-> <<>>],
     [email_contains |-> <<"B", ".", "C">>],
     [domain |-> <<"b", ".", "c", "o">>],
     [email |-> <<"a", "@", "b", ".", "c", "o">>, domain |-> <<"b", ".", "c", "o">>],
     [domain |-> <<"c", ".", "c", "o">>],
     [domain |-> <<".", "b", ".", "c", "o">>],
     [email_contains |-> <<"r", "@">>],
     [email_contains |-> <<"%">>]}

Request(op, id, headers, data, args) ==
    [op |-> op, id |-> id, headers |-> headers, data |-> data, args |-> args]

(***************************************************************************)
(* Handlers                                                                *)
(***************************************************************************)

\* CustomerCollection.get: the rows the composed query selects
query_filter(row, args) ==
    LET email == ArgsGet(args, "email")
        first_name == ArgsGet(args, "first_name")
        last_name == ArgsGet(args, "last_name")
        phone_number == ArgsGet(args, "phone_number")
    IN /\ Truthy(email) => sql_eq(row.email, email.v)
       /\ Truthy(first_name) => sql_eq(row.first_name, first_name.v)
       /\ Truthy(last_name) => ilike(row.last_name, <<"%">> \o last_name.v \o <<"%">>)
       /\ Truthy(phone_number) => sql_eq(row.phone_number, phone_number.v)

\* CustomerCollection.get: the response.  Customer has no attribute
\* "suspended", so building the suspended filter raises AttributeError.
list_response(args) ==
    IF ArgsGet(args, "suspended") # Null
    THEN InternalServerErrorResponse
    ELSE Response(HTTP_200_OK,
                  ListBody({marshal(serialize(row), customer_response_model) :
                               row \in {r \in store : query_filter(r, args)}}),
                  NoHeaders)

Init ==
    /\ store = {}
    /\ seq = 0
    /\ req = Request("None", -1, NoHeaders, Null, NoArgs)
    /\ resp = Response(0, EmptyBody, NoHeaders)
    /\ removed = {}
    /\ ever = {}
    /\ lastSA = [i \in ReqIds |-> "none"]

\* CustomerCollection.post
Post(headers, data) ==
    /\ req' = Request("Create", -1, headers, data, NoArgs)
    /\ UNCHANGED <<removed, lastSA>>
    /\ IF ~check_content_type(headers, "application/json")
       THEN /\ resp' = abort(HTTP_415_UNSUPPORTED_MEDIA_TYPE,
                             ContentTypeMessage("application/json"))
            /\ UNCHANGED <<store, seq, ever>>
       ELSE LET d == deserialize(Customer, data) IN
            IF ~d.ok
            THEN /\ resp' = DataValidationErrorResponse
                 /\ UNCHANGED <<store, seq, ever>>
            ELSE LET c == create(d.self) IN
                 /\ seq < MaxId
                 /\ store' = c.store
                 /\ seq' = c.self.id.v
                 /\ ever' = ever \cup {c.self.id.v}
                 /\ resp' = Response(HTTP_201_CREATED,
                                     CustomerBody(marshal(serialize(c.self),
                                                          customer_response_model)),
                                     ("Location" :> location_url(c.self.id.v)))

\* a get that removes the record it has served
GetAndDelete(customer_id) ==
    /\ req' = Request("Get", customer_id, NoHeaders, Null, NoArgs)
    /\ UNCHANGED <<seq, removed, ever, lastSA>>
    /\ LET customer == find(customer_id) IN
       IF customer = Null
       THEN /\ resp' = abort(HTTP_404_NOT_FOUND, NotFoundMessage(customer_id))
            /\ UNCHANGED store
       ELSE /\ resp' = Response(HTTP_200_OK,
                                CustomerBody(marshal(serialize(customer),
                                                     customer_response_model)),
                                NoHeaders)
            /\ store' = delete(customer)

\* CustomerResource.get
Get(customer_id) ==
    /\ req' = Request("Get", customer_id, NoHeaders, Null, NoArgs)
    /\ UNCHANGED <<store, seq, removed, ever, lastSA>>
    /\ LET customer == find(customer_id) IN
       IF customer = Null
       THEN resp' = abort(HTTP_404_NOT_FOUND, NotFoundMessage(customer_id))
       ELSE resp' = Response(HTTP_200_OK,
                             CustomerBody(marshal(serialize(customer),
                                                  customer_response_model)),
                             NoHeaders)

\* a put that looks the customer up before it checks the Content-Type
PutLookupFirst(customer_id, headers, data) ==
    /\ req' = Request("Update", customer_id, headers, data, NoArgs)
    /\ UNCHANGED <<seq, removed, ever, lastSA>>
    /\ LET customer == find(customer_id) IN
       IF customer = Null
       THEN /\ resp' = abort(HTTP_404_NOT_FOUND, NotFoundMessage(customer_id))
            /\ UNCHANGED store
       ELSE IF ~check_content_type(headers, "application/json")
       THEN /\ resp' = abort(HTTP_415_UNSUPPORTED_MEDIA_TYPE,
                             ContentTypeMessage("application/json"))
            /\ UNCHANGED store
       ELSE LET d == deserialize(customer, data) IN
            IF ~d.ok
            THEN /\ resp' = DataValidationErrorResponse
                 /\ UNCHANGED store
            ELSE /\ store' = update(customer, d.self)
                 /\ resp' = Response(HTTP_200_OK,
                                     CustomerBody(marshal(serialize(d.self),
                                                          customer_response_model)),
                                     NoHeaders)

\* CustomerResource.put
Put(customer_id, headers, data) ==
    /\ req' = Request("Update", customer_id, headers, data, NoArgs)
    /\ UNCHANGED <<seq, removed, ever, lastSA>>
    /\ IF ~check_content_type(headers, "application/json")
       THEN /\ resp' = abort(HTTP_415_UNSUPPORTED_MEDIA_TYPE,
                             ContentTypeMessage("application/json"))
            /\ UNCHANGED store
       ELSE LET customer == find(customer_id) IN
            IF customer = Null
            THEN /\ resp' = abort(HTTP_404_NOT_FOUND, NotFoundMessage(customer_id))
                 /\ UNCHANGED store
            ELSE LET d == deserialize(customer, data) IN
                 IF ~d.ok
                 THEN \* the request's session ends without a commit
                      /\ resp' = DataValidationErrorResponse
                      /\ UNCHANGED store
                 ELSE /\ store' = update(customer, d.self)
                      /\ resp' = Response(HTTP_200_OK,
                                          CustomerBody(marshal(serialize(d.self),
                                                               customer_response_model)),
                                          NoHeaders)

\* CustomerResource.delete
Delete(customer_id) ==
    /\ req' = Request("Delete", customer_id, NoHeaders, Null, NoArgs)
    /\ UNCHANGED <<seq, ever>>
    /\ LET customer == find(customer_id) IN
       IF customer # Null
       THEN /\ store' = delete(customer)
            /\ removed' = removed \cup {customer.id.v}
            /\ lastSA' = [lastSA EXCEPT ![customer_id] = "none"]
       ELSE UNCHANGED <<store, removed, lastSA>>
    /\ resp' = Response(HTTP_204_NO_CONTENT, EmptyBody, NoHeaders)

\* CustomerCollection.get
ListAll(args) ==
    /\ req' = Request("List", -1, NoHeaders, Null, args)
    /\ UNCHANGED <<store, seq, removed, ever, lastSA>>
    /\ resp' = list_response(args)

\* a suspended setter that also blanks the address
set_suspended_blank_address(customer, value) ==
    [customer EXCEPT !.address = Null] @@ ("suspended" :> Bool(value))

\* customer.suspended = value on an instance whose class maps no such column:
\* a plain attribute of the instance
set_suspended(customer, value) == customer @@ ("suspended" :> Bool(value))

\* CustomerSuspendResource.put
Suspend(customer_id) ==
    /\ req' = Request("Suspend", customer_id, NoHeaders, Null, NoArgs)
    /\ UNCHANGED <<seq, removed, ever>>
    /\ LET customer == find(customer_id) IN
       IF customer = Null
       THEN /\ resp' = abort(HTTP_404_NOT_FOUND, NotFoundMessage(customer_id))
            /\ UNCHANGED <<store, lastSA>>
       ELSE LET c == set_suspended(customer, TRUE) IN
            /\ store' = update(customer, c)
            /\ lastSA' = [lastSA EXCEPT ![customer_id] = "suspend"]
            /\ resp' = Response(HTTP_200_OK,
                                CustomerBody(marshal(serialize(c), customer_response_model)),
                                NoHeaders)

\* CustomerActivateResource.put
Activate(customer_id) ==
    /\ req' = Request("Activate", customer_id, NoHeaders, Null, NoArgs)
    /\ UNCHANGED <<seq, removed, ever>>
    /\ LET customer == find(customer_id) IN
       IF customer = Null
       THEN /\ resp' = abort(HTTP_404_NOT_FOUND, NotFoundMessage(customer_id))
            /\ UNCHANGED <<store, lastSA>>
       ELSE LET c == set_suspended(customer, FALSE) IN
            /\ store' = update(customer, c)
            /\ lastSA' = [lastSA EXCEPT ![customer_id] = "activate"]
            /\ resp' = Response(HTTP_200_OK,
                                CustomerBody(marshal(serialize(c), customer_response_model)),
                                NoHeaders)

Next ==
    \/ \E w \in WriteInputs : Post(w[1], w[2])
    \/ \E i \in ReqIds : Get(i)
    \/ \E i \in ReqIds, w \in WriteInputs : Put(i, w[1], w[2])
    \/ \E i \in ReqIds : Delete(i)
    \/ \E q \in ListQueries : ListAll(q)
    \/ \E i \in ReqIds : Suspend(i)
    \/ \E i \in ReqIds : Activate(i)

Spec == Init /\ [][Next]_vars

(***************************************************************************)
(* Properties                                                              *)
(***************************************************************************)
LiveIds == {r.id.v : r \in store}
Succeeded(request, response, op, status) == request.op = op /\ response.status = status
IsJson(request) == check_content_type(request.headers, "application/json")
\* the value of "suspended" the service reports for a stored row
SuspendedOf(row) == marshal(serialize(row), customer_response_model)["suspended"]

\* a body that gives first_name, last_name and email as strings
HasRequiredStrings(data) ==
    /\ data.t = "dict"
    /\ \A k \in {"first_name", "last_name", "email"} :
          k \in DOMAIN data.v /\ data.v[k].t = "str"

\* C1: every successful Create (a body with first_name, last_name, email and
\* optionally phone_number, address) answers 201 with a Location header, and
\* a Get of the Location target issued as the next request answers 200 with
\* first_name, last_name, email, phone_number and address equal to the posted
\* values (null for an omitted optional field) and suspended = false.
C1_CreateThenGet ==
    [][/\ Succeeded(req, resp, "Create", HTTP_201_CREATED)
          => "Location" \in DOMAIN resp.headers
       /\ ( /\ Succeeded(req, resp, "Create", HTTP_201_CREATED)
            /\ HasRequiredStrings(req.data)
            /\ req'.op = "Get"
            /\ req'.id = customer_id_of(resp.headers["Location"]) )
          => /\ resp'.status = HTTP_200_OK
             /\ \A k \in {"first_name", "last_name", "email", "phone_number", "address"} :
                   resp'.body.v[k] = DictGet(req.data.v, k)
             /\ resp'.body.v["suspended"] = Bool(FALSE)]_vars

\* C2: Delete always answers 204 with an empty body; when the id is absent
\* the table is unchanged, and when it is present exactly the row with that
\* id is removed and every other row is unchanged.
C2_DeleteAlways204 ==
    [][req'.op = "Delete"
       => /\ resp' = Response(HTTP_204_NO_CONTENT, EmptyBody, NoHeaders)
          /\ IF req'.id \in LiveIds
             THEN /\ store' = {r \in store : r.id # Num(req'.id)}
                  /\ Cardinality(store') = Cardinality(store) - 1
             ELSE store' = store]_vars

\* C2 witness: a Delete removed a row and answered 204 while another row stayed
C2_Witness ==
    /\ Succeeded(req, resp, "Delete", HTTP_204_NO_CONTENT)
    /\ req.id \in removed
    /\ store # {}

C4_SuspendActivateIdempotent ==
    [][/\ (req'.op = "Suspend" /\ req'.id \in LiveIds /\ lastSA[req'.id] = "suspend")
          => /\ resp'.status = HTTP_200_OK
             /\ resp'.body.v["suspended"] = Bool(TRUE)
             /\ store' = store
       /\ (req'.op = "Activate" /\ req'.id \in LiveIds /\ lastSA[req'.id] # "suspend")
          => /\ resp'.status = HTTP_200_OK
             /\ resp'.body.v["suspended"] = Bool(FALSE)
             /\ store' = store]_vars

\* C5: a Get on a live record reports suspended = true exactly when the most
\* recent Suspend or Activate request on its id was a Suspend, and
\* suspended = false when there was none.
C5_SuspendedPersisted ==
    Succeeded(req, resp, "Get", HTTP_200_OK)
    => resp.body.v["suspended"] = Bool(lastSA[req.id] = "suspend")

\* C6: every record in a Create, Get, Update, Suspend, Activate or List
\* response has the seven keys id, first_name, last_name, email, phone_number,
\* address, suspended, and its suspended is a boolean.
C6_SerializationContract ==
    LET WellFormed(d) ==
            /\ DOMAIN d = {"id", "first_name", "last_name", "email", "phone_number",
                           "address", "suspended"}
            /\ d["suspended"].t = "bool"
    IN /\ resp.body.kind = "customer" => WellFormed(resp.body.v)
       /\ resp.body.kind = "list" => \A d \in resp.body.v : WellFormed(d)

\* C7: a record has suspended = false when it is created, and the stored
\* suspended of a record changes only in a Suspend, an Activate, or an Update
\* whose body supplies suspended.
C7_SuspendedDefaultAndFrame ==
    [][/\ Succeeded(req', resp', "Create", HTTP_201_CREATED)
          => /\ resp'.body.v["suspended"] = Bool(FALSE)
             /\ \A r \in store' \ store : SuspendedOf(r) = Bool(FALSE)
       /\ \A r \in store, n \in store' :
             (r.id = n.id /\ SuspendedOf(r) # SuspendedOf(n))
             => \/ req'.op \in {"Suspend", "Activate"}
                \/ /\ req'.op = "Update"
                   /\ req'.data.t = "dict"
                   /\ "suspended" \in DOMAIN req'.data.v]_vars

\* C8: Create assigns an id that no row has or ever had and that is not taken
\* from the body; Update, Suspend and Activate leave the ids of the table as
\* they are and answer with the addressed id, also when the Update body
\* carries another id; no two rows share an id.
C8_IdAssignedOnceNeverChanged ==
    [][/\ Succeeded(req', resp', "Create", HTTP_201_CREATED)
          => LET new == resp'.body.v["id"] IN
             /\ new.v \notin ever
             /\ new.v \notin LiveIds
             /\ "id" \in DOMAIN req'.data.v => new # req'.data.v["id"]
             /\ {r.id : r \in store'} = {r.id : r \in store} \cup {new}
       /\ ( /\ req'.op \in {"Update", "Suspend", "Activate"}
            /\ resp'.status = HTTP_200_OK )
          => /\ {r.id : r \in store'} = {r.id : r \in store}
             /\ resp'.body.v["id"] = Num(req'.id)
       /\ \A r1, r2 \in store' : r1.id = r2.id => r1 = r2]_vars

\* C8 witness: an Update whose body carries another id succeeded and answered
\* with the addressed id, after some id had been retired
C8_Witness ==
    /\ Succeeded(req, resp, "Update", HTTP_200_OK)
    /\ "id" \in DOMAIN req.data.v
    /\ req.data.v["id"] # Num(req.id)
    /\ resp.body.v["id"] = Num(req.id)
    /\ removed # {}

\* C9: Get, JSON Update, Suspend and Activate on an id that is not in the
\* table answer 404 with the message "Customer with id '<id>' was not found."
\* and leave the table unchanged.
C9_UnknownIdIs404 ==
    [][( /\ \/ req'.op \in {"Get", "Suspend", "Activate"}
            \/ req'.op = "Update" /\ IsJson(req')
         /\ req'.id \notin LiveIds )
       => /\ resp'.status = HTTP_404_NOT_FOUND
          /\ resp'.body.kind = "error"
          /\ resp'.body.message = NotFoundMessage(req'.id)
          /\ store' = store]_vars

\* C9 witness: a valid JSON Update on an unknown id answered 404 with a
\* non-empty table
C9_Witness ==
    /\ Succeeded(req, resp, "Update", HTTP_404_NOT_FOUND)
    /\ req.data = FullBody
    /\ IsJson(req)
    /\ req.id \notin LiveIds
    /\ store # {}

\* C10: a successful Update answers 200 and replaces the record: first_name,
\* last_name and email are the body's, phone_number and address are the body's
\* or null when the body omits them, the id stays, and every other row is
\* unchanged.
C10_UpdateFullReplace ==
    [][Succeeded(req', resp', "Update", HTTP_200_OK)
       => /\ \E new \in store' :
                /\ new.id = Num(req'.id)
                /\ new.first_name = req'.data.v["first_name"]
                /\ new.last_name = req'.data.v["last_name"]
                /\ new.email = req'.data.v["email"]
                /\ new.phone_number = DictGet(req'.data.v, "phone_number")
                /\ new.address = DictGet(req'.data.v, "address")
          /\ {r \in store' : r.id # Num(req'.id)} = {r \in store : r.id # Num(req'.id)}
          /\ Cardinality(store') = Cardinality(store)
          /\ req'.id \in LiveIds]_vars

\* C10 witness: an Update that omits phone_number and address succeeded and
\* the record now has both null, with another row in the table
C10_Witness ==
    /\ Succeeded(req, resp, "Update", HTTP_200_OK)
    /\ req.data = MinimalBody
    /\ resp.body.v["phone_number"] = Null
    /\ resp.body.v["address"] = Null
    /\ Cardinality(store) >= 2

\* a JSON object that lacks at least one of first_name, last_name, email
LacksRequired(data) ==
    data.t = "dict" /\ {"first_name", "last_name", "email"} \ DOMAIN data.v # {}

C12_RejectedCreateAddsNothing ==
    [][(req'.op = "Create" /\ IsJson(req') /\ LacksRequired(req'.data))
       => /\ resp'.status = HTTP_400_BAD_REQUEST
          /\ store' = store
          /\ list_response(NoArgs)' = list_response(NoArgs)]_vars

\* C12 witness: a Create that lacks exactly one required field was answered
\* 400 with a record in the table
C12_Witness ==
    /\ Succeeded(req, resp, "Create", HTTP_400_BAD_REQUEST)
    /\ req.data \in {MissingFirstNameBody, MissingLastNameBody, MissingEmailBody}
    /\ store # {}

\* C13: a Create or Update whose Content-Type header is absent or is not
\* exactly application/json answers 415 whatever the body and the id, and
\* leaves the table unchanged.
C13_ContentTypeExact ==
    [][( /\ req'.op \in {"Create", "Update"}
         /\ \/ "Content-Type" \notin DOMAIN req'.headers
            \/ req'.headers["Content-Type"] # "application/json" )
       => /\ resp'.status = HTTP_415_UNSUPPORTED_MEDIA_TYPE
          /\ store' = store]_vars

\* C13 witness: an Update of a live record with a valid body under
\* "application/json; charset=utf-8" was answered 415
C13_Witness ==
    /\ Succeeded(req, resp, "Update", HTTP_415_UNSUPPORTED_MEDIA_TYPE)
    /\ req.headers = ("Content-Type" :> "application/json; charset=utf-8")
    /\ req.data = FullBody
    /\ req.id \in LiveIds

(***************************************************************************)
(* The List contract: filters as values, not as SQL patterns               *)
(***************************************************************************)
\* a query parameter that is present with a non-empty value
Provided(args, name) == name \in DOMAIN args /\ args[name] # <<>>
ProvidedOf(args, names) == {n \in names : Provided(args, n)}

\* s has the literal sub somewhere, compared without case
ContainsNoCase(col, sub) == col.t = "str" /\ InStr(Lower(sub), Lower(col.v))
\* s ends with the literal suffix, compared without case
EndsWithNoCase(col, suffix) ==
    /\ col.t = "str"
    /\ Len(col.v) >= Len(suffix)
    /\ SubSeq(Lower(col.v), Len(col.v) - Len(suffix) + 1, Len(col.v)) = Lower(suffix)

\* the boolean a non-empty suspended parameter stands for
CoerceSuspended(value) ==
    Lower(value) \in {<<"t", "r", "u", "e">>, <<"1">>, <<"y", "e", "s">>}

\* the record satisfies every provided filter
SatisfiesFilters(row, args) ==
    /\ Provided(args, "email") => row.email = Str(args["email"])
    /\ Provided(args, "email_contains") => ContainsNoCase(row.email, args["email_contains"])
    /\ Provided(args, "domain") => EndsWithNoCase(row.email, <<"@">> \o args["domain"])
    /\ Provided(args, "first_name") => ContainsNoCase(row.first_name, args["first_name"])
    /\ Provided(args, "last_name") => ContainsNoCase(row.last_name, args["last_name"])
    /\ Provided(args, "phone_number") => row.phone_number = Str(args["phone_number"])
    /\ Provided(args, "suspended") =>
           SuspendedOf(row) = Bool(CoerceSuspended(args["suspended"]))

\* a query the contract does not reject
AcceptedQuery(args) ==
    /\ Cardinality(ProvidedOf(args, {"email", "email_contains", "domain"})) <= 1
    /\ Provided(args, "email") => validate_email_format(args["email"])
    /\ Provided(args, "domain") => validate_domain_format(args["domain"])

\* the ids a List response carries
IdsOf(response) == {c["id"].v : c \in response.body.v}
\* the response is 200 with exactly the stored records picked by Keep
ListsExactly(response, Keep(_)) ==
    /\ response.status = HTTP_200_OK
    /\ response.body.kind = "list"
    /\ IdsOf(response) = {r.id.v : r \in {x \in store : Keep(x)}}
    /\ Cardinality(response.body.v) = Cardinality(IdsOf(response))

\* C14: for every store and every combination of provided filters that the
\* contract accepts, List answers exactly the stored records that satisfy all
\* of the provided filters at once, never more and never fewer.
C14_ListIsIntersection ==
    (req.op = "List" /\ AcceptedQuery(req.args))
       => LET Keep(row) == SatisfiesFilters(row, req.args)
          IN ListsExactly(resp, Keep)

\* C15: a List with no parameters, or with only empty-valued parameters,
\* answers 200 with exactly the records created and not deleted, each once,
\* with their current field values.
C15_NoFilterListsAll ==
    (req.op = "List" /\ \A n \in DOMAIN req.args : req.args[n] = <<>>)
       => /\ resp.status = HTTP_200_OK
          /\ resp.body.kind = "list"
          /\ resp.body.v = {marshal(serialize(row), customer_response_model) : row \in store}
          /\ Cardinality(resp.body.v) = Cardinality(store)

\* C16: a List with more than one of email, email_contains and domain
\* provided answers 400 with the message "Please provide only one filter:
\* email, email_contains, or domain" and no records.
C16_EmailGroupExclusive ==
    ( /\ req.op = "List"
      /\ Cardinality(ProvidedOf(req.args, {"email", "email_contains", "domain"})) > 1 )
       => /\ resp.status = HTTP_400_BAD_REQUEST
          /\ resp.body.kind = "error"
          /\ resp.body.message
                = <<"Please provide only one filter: email, email_contains, or domain">>

\* C17: a List whose email parameter fails validate_email_format answers 400
\* (Invalid email format); with a valid email as the only parameter it answers
\* exactly the records whose email equals the value, case-sensitively.
C17_EmailValidatedThenExact ==
    (req.op = "List" /\ ProvidedOf(req.args, DOMAIN req.args) = {"email"})
       => IF validate_email_format(req.args["email"])
          THEN LET Keep(row) == row.email = Str(req.args["email"])
               IN ListsExactly(resp, Keep)
          ELSE /\ resp.status = HTTP_400_BAD_REQUEST
               /\ resp.body.kind = "error"
               /\ \E i \in DOMAIN resp.body.message :
                      resp.body.message[i] = "Invalid email format"

\* C18: a List whose domain parameter fails validate_domain_format answers
\* 400 (Invalid domain format: <value>); with a valid domain as the only
\* parameter it answers exactly the records whose email ends with "@" and the
\* domain, compared without case.
C18_DomainValidatedThenSuffix ==
    (req.op = "List" /\ ProvidedOf(req.args, DOMAIN req.args) = {"domain"})
       => IF validate_domain_format(req.args["domain"])
          THEN LET Keep(row) == EndsWithNoCase(row.email, <<"@">> \o req.args["domain"])
               IN ListsExactly(resp, Keep)
          ELSE /\ resp.status = HTTP_400_BAD_REQUEST
               /\ resp.body.kind = "error"
               /\ resp.body.message = <<"Invalid domain format: ">> \o req.args["domain"]

\* C19: a List with email_contains as the only provided parameter is not
\* validated and answers exactly the records whose email contains the value
\* as a literal substring, compared without case, also when the value holds
\* % or _.
C19_EmailContainsLiteral ==
    (req.op = "List" /\ ProvidedOf(req.args, DOMAIN req.args) = {"email_contains"})
       => LET Keep(row) == ContainsNoCase(row.email, req.args["email_contains"])
          IN ListsExactly(resp, Keep)

\* C20: in a List with only first_name and/or last_name provided, first_name
\* selects the records whose first_name contains the value without case, and
\* last_name selects by the same rule on last_name.
C20_NamesSubstringNoCase ==
    ( /\ req.op = "List"
      /\ ProvidedOf(req.args, DOMAIN req.args) # {}
      /\ ProvidedOf(req.args, DOMAIN req.args) \subseteq {"first_name", "last_name"} )
       => LET Keep(row) ==
                  /\ Provided(req.args, "first_name")
                        => ContainsNoCase(row.first_name, req.args["first_name"])
                  /\ Provided(req.args, "last_name")
                        => ContainsNoCase(row.last_name, req.args["last_name"])
          IN ListsExactly(resp, Keep)

\* C21: in a List with suspended as the only provided parameter, the value
\* stands for true exactly when its lower case is "true", "1" or "yes" and for
\* false otherwise, and the answer is 200 with exactly the records whose
\* suspended equals that boolean.
C21_SuspendedCoercedAndFiltered ==
    (req.op = "List" /\ ProvidedOf(req.args, DOMAIN req.args) = {"suspended"})
       => LET Keep(row) == SuspendedOf(row) = Bool(CoerceSuspended(req.args["suspended"]))
          IN ListsExactly(resp, Keep)

(***************************************************************************)
(* The validators as functions of their argument                           *)
(***************************************************************************)
MaxLen == 7

\* the characters the arguments are made of: a letter, the two separators, a
\* character allowed inside both parts, one allowed only inside local, and the
\* space
ArgChars == {"a", "@", ".", "-", "_", " "}
\* the strings of a given length
ArgStrings(n) == [1..n -> ArgChars]

\* the value a classmethod returned
Returned(value) == Response(0, [kind |-> "bool", v |-> value], NoHeaders)

\* an argument is chosen; no record exists and nothing has been called
InitValidate ==
    /\ store = {}
    /\ seq = 0
    /\ \E n \in 0..MaxLen : \E s \in ArgStrings(n) :
           req = Request("None", -1, NoHeaders, Str(s), NoArgs)
    /\ resp = Response(0, EmptyBody, NoHeaders)
    /\ removed = {}
    /\ ever = {}
    /\ lastSA = [i \in ReqIds |-> "none"]

\* Customer.validate_email_format(email)
ValidateEmail ==
    /\ req' = [req EXCEPT !.op = "validate_email_format"]
    /\ resp' = Returned(validate_email_format(req.data.v))
    /\ UNCHANGED <<store, seq, removed, ever, lastSA>>

\* Customer.validate_domain_format(domain)
ValidateDomain ==
    /\ req' = [req EXCEPT !.op = "validate_domain_format"]
    /\ resp' = Returned(validate_domain_format(req.data.v))
    /\ UNCHANGED <<store, seq, removed, ever, lastSA>>

NextValidate ==
    \/ ValidateEmail
    \/ ValidateDomain

SpecValidate == InitValidate /\ [][NextValidate]_vars

\* a part that starts and ends with an alphanumeric character (one such
\* character is a part) and has only the given characters in between
IsPart(s, inner) ==
    /\ Len(s) >= 1
    /\ s[1] \in AsciiAlnum
    /\ s[Len(s)] \in AsciiAlnum
    /\ \A i \in 2..(Len(s) - 1) : s[i] \in inner

\* at least two letters
IsTld(s) == Len(s) >= 2 /\ \A i \in 1..Len(s) : s[i] \in AsciiLetters

\* local@label.tld
IsEmailForm(e) ==
    \E i \in 1..Len(e), j \in 1..Len(e) :
        /\ i < j
        /\ e[i] = "@"
        /\ e[j] = "."
        /\ IsPart(SubSeq(e, 1, i - 1), AsciiAlnum \cup {".", "_", "%", "+", "-"})
        /\ IsPart(SubSeq(e, i + 1, j - 1), AsciiAlnum \cup {".", "-"})
        /\ IsTld(SubSeq(e, j + 1, Len(e)))

\* C22: validate_email_format(e) is true exactly when e is non-empty, has no
\* two consecutive dots and no space, and has the form local@label.tld with
\* local and label each starting and ending with an alphanumeric character (a
\* single alphanumeric character counts, whatever the length of the other
\* part) and tld at least two letters.
C22_EmailFormatExact ==
    req.op = "validate_email_format"
       => resp.body.v = ( /\ req.data.v # <<>>
                          /\ ~InStr(<<".", ".">>, req.data.v)
                          /\ ~InStr(<<" ">>, req.data.v)
                          /\ IsEmailForm(req.data.v) )

\* a domain the pre-checks refuse
IsRefusedDomain(d) ==
    \/ d = <<>>
    \/ InStr(<<".", ".">>, d)
    \/ InStr(<<" ">>, d)
    \/ d[1] = "."
    \/ d[Len(d)] = "."

\* label(.label)*.tld, split at the final dot
IsDomainForm(d) ==
    \E j \in 1..Len(d) :
        /\ d[j] = "."
        /\ IsPart(SubSeq(d, 1, j - 1), AsciiAlnum \cup {".", "-"})
        /\ IsTld(SubSeq(d, j + 1, Len(d)))

\* C23: validate_domain_format(d) is false for every d that is empty, has two
\* consecutive dots, has a space, or starts or ends with a dot, and true for
\* every other d of the form label(.label)*.tld whose first character and
\* last character before the final dot are alphanumeric, whose other
\* characters are alphanumeric, dot or hyphen, and whose tld is at least two
\* letters.
C23_DomainFormat ==
    req.op = "validate_domain_format"
       => /\ IsRefusedDomain(req.data.v) => resp.body.v = FALSE
          /\ (~IsRefusedDomain(req.data.v) /\ IsDomainForm(req.data.v)) => resp.body.v = TRUE
\* a one-character label before the tld has been accepted
C23_Witness ==
    /\ req.op = "validate_domain_format"
    /\ req.data.v = <<"a", ".", "a", "a">>
    /\ resp.body.v = TRUE

\* C24: a successful Suspend or Activate leaves id, first_name, last_name,
\* email, phone_number and address of the addressed record, and every field of
\* every other record, as they were before the request.
C24_SuspendActivateFrame ==
    [][(req'.op \in {"Suspend", "Activate"} /\ resp'.status = HTTP_200_OK)
          => /\ {[c \in Columns |-> r[c]] : r \in store'} = {[c \in Columns |-> r[c]] : r \in store}
             /\ \A i \in ReqIds : i # req'.id => find(i)' = find(i)
             /\ \A c \in Columns : resp'.body.v[c] = find(req'.id)[c]]_vars
\* a record with an address has been suspended while another record exists
C24_Witness ==
    /\ Succeeded(req, resp, "Suspend", HTTP_200_OK)
    /\ Cardinality(store) >= 2
    /\ find(req.id).address # Null
    /\ find(req.id).phone_number # Null

\* a body that gives first_name, last_name or email the JSON value null
HasNullRequired(data) ==
    /\ data.t = "dict"
    /\ \E k \in {"first_name", "last_name", "email"} : k \in DOMAIN data.v /\ data.v[k] = Null

\* C25: a Create, or an Update of an existing record, whose JSON body gives
\* first_name, last_name or email as null answers 400 and leaves the store
\* unchanged, so no stored record has a null first_name, last_name or email.
C25_NullRequiredRejected ==
    [][( /\ req'.op \in {"Create", "Update"}
         /\ IsJson(req')
         /\ HasNullRequired(req'.data)
         /\ req'.op = "Update" => req'.id \in LiveIds )
          => /\ resp'.status = HTTP_400_BAD_REQUEST
             /\ store' = store
             /\ \A r \in store' : Null \notin {r.first_name, r.last_name, r.email}]_vars

\* C26: Update checks the Content-Type first, then that the id exists, then
\* the body: for an unknown id it answers 415 when the Content-Type is not
\* application/json and 404 otherwise, also when the body lacks required
\* fields, and the store is unchanged.
C26_UpdateCheckOrder ==
    [][(req'.op = "Update" /\ req'.id \notin LiveIds)
          => /\ resp'.status = IF IsJson(req')
                               THEN HTTP_404_NOT_FOUND
                               ELSE HTTP_415_UNSUPPORTED_MEDIA_TYPE
             /\ store' = store]_vars
\* an Update of an unknown id without a JSON Content-Type has been answered
\* 415 while other records exist
C26_Witness ==
    /\ Succeeded(req, resp, "Update", HTTP_415_UNSUPPORTED_MEDIA_TYPE)
    /\ req.id \notin LiveIds
    /\ store # {}

\* the query without its suspended parameter
WithoutSuspended(args) == [n \in DOMAIN args \ {"suspended"} |-> args[n]]

\* C27: a List whose suspended parameter is present with the empty string is
\* answered as the same request without the suspended parameter: no suspended
\* filter is applied.
C27_EmptySuspendedIsAbsent ==
    ( /\ req.op = "List"
      /\ "suspended" \in DOMAIN req.args
      /\ req.args["suspended"] = <<>> )
       => resp = list_response(WithoutSuspended(req.args))

\* C28: List and Get never change the store: whatever the id or the filter
\* parameters, and whatever the answer (200, 404 or an error), the records and
\* all their field values are the same after the request as before it.
C28_ReadsDoNotWrite ==
    [][req'.op \in {"List", "Get"}
          => /\ store' = store
             /\ \A i \in ReqIds : find(i)' = find(i)]_vars
\* a filtered List has answered with some but not all of the stored records
C28_Witness ==
    /\ Succeeded(req, resp, "List", HTTP_200_OK)
    /\ resp.body.v # {}
    /\ Cardinality(resp.body.v) < Cardinality(store)

(***************************************************************************)
(* Requests whose commit fails                                             *)
(***************************************************************************)
\* db.session.rollback() that leaves the flushed changes in place
rollback_keeps_flushed(table, flushed) == flushed

\* db.session.rollback(): what the transaction flushed is undone and the
\* session holds no pending change; the table is as the transaction found it
rollback(table, flushed) == table

\* bodies that reach the commit
CommitBodies == {FullBody, MinimalBody, EchoBody}

\* CustomerCollection.post when db.session.commit() raises in Customer.create;
\* a sequence value taken by the flush is not given back
PostCommitFails(headers, data) ==
    /\ check_content_type(headers, "application/json")
    /\ deserialize(Customer, data).ok
    /\ seq < MaxId
    /\ req' = Request("CreateCommitFails", -1, headers, data, NoArgs)
    /\ store' = rollback(store, create(deserialize(Customer, data).self).store)
    /\ \E flushed \in BOOLEAN : seq' = IF flushed THEN nextval(seq) ELSE seq
    /\ resp' = DataValidationErrorResponse
    /\ UNCHANGED <<removed, ever, lastSA>>

\* CustomerResource.put when db.session.commit() raises in Customer.update
PutCommitFails(customer_id, headers, data) ==
    /\ check_content_type(headers, "application/json")
    /\ find(customer_id) # Null
    /\ deserialize(find(customer_id), data).ok
    /\ req' = Request("UpdateCommitFails", customer_id, headers, data, NoArgs)
    /\ store' = rollback(store, update(find(customer_id),
                                       deserialize(find(customer_id), data).self))
    /\ resp' = DataValidationErrorResponse
    /\ UNCHANGED <<seq, removed, ever, lastSA>>

\* CustomerResource.delete when db.session.commit() raises in Customer.delete
DeleteCommitFails(customer_id) ==
    /\ find(customer_id) # Null
    /\ req' = Request("DeleteCommitFails", customer_id, NoHeaders, Null, NoArgs)
    /\ store' = rollback(store, delete(find(customer_id)))
    /\ resp' = DataValidationErrorResponse
    /\ UNCHANGED <<seq, removed, ever, lastSA>>

\* JSON writes, Delete and Get, each commit free to fail
NextCommitFail ==
    \/ \E d \in CommitBodies : Post(JsonHeaders, d)
    \/ \E i \in ReqIds, d \in CommitBodies : Put(i, JsonHeaders, d)
    \/ \E i \in ReqIds : Delete(i)
    \/ \E i \in ReqIds : Get(i)
    \/ \E d \in CommitBodies : PostCommitFails(JsonHeaders, d)
    \/ \E i \in ReqIds, d \in CommitBodies : PutCommitFails(i, JsonHeaders, d)
    \/ \E i \in ReqIds : DeleteCommitFails(i)

SpecCommitFail == Init /\ [][NextCommitFail]_vars

CommitFailOps == {"CreateCommitFails", "UpdateCommitFails", "DeleteCommitFails"}

\* C29: when the commit of a create, update or delete fails, a
\* DataValidationError is raised and the store has exactly the records and
\* field values it had before; and at every step every stored record stems
\* from a create that succeeded and no record deleted with success is stored,
\* so a failed change does not come back with a later commit.
C29_FailedCommitRolledBack ==
    [][/\ req'.op \in CommitFailOps
             => /\ resp' = DataValidationErrorResponse
                /\ store' = store
                /\ \A i \in ReqIds : find(i)' = find(i)
       /\ \A r \in store' : r.id.v \in ever' \ removed']_vars
\* the commit of an Update that would have changed a record has failed
C29_Witness ==
    /\ req.op = "UpdateCommitFails"
    /\ resp = DataValidationErrorResponse
    /\ find(req.id) # Null
    /\ find(req.id).first_name # req.data.v["first_name"]
    /\ Cardinality(store) >= 2

\* C30: a successful Update leaves the suspended value of the addressed record
\* as it was, whatever the body supplies for suspended, so a record whose last
\* Suspend or Activate was a Suspend is still suspended after the Update.
C30_UpdateKeepsSuspended ==
    [][Succeeded(req', resp', "Update", HTTP_200_OK)
          => \A i \in ReqIds :
                i = req'.id
                => /\ SuspendedOf(find(i))' = SuspendedOf(find(i))
                   /\ lastSA[i] = "suspend"
                         => /\ SuspendedOf(find(i))' = Bool(TRUE)
                            /\ resp'.body.v["suspended"] = Bool(TRUE)
                   /\ lastSA[i] = "activate"
                         => /\ SuspendedOf(find(i))' = Bool(FALSE)
                            /\ resp'.body.v["suspended"] = Bool(FALSE)]_vars

=============================================================================
